---- MODULE Spec2Model ----
(***************************************************************************)
(* Model of the Animal ETL pipeline: AnimalETLProcessor.run (extract list  *)
(* pages, fetch details, transform, load in batches), the API client's     *)
(* logical calls, and the retry loop around one HTTP request.              *)
(***************************************************************************)
EXTENDS Integers, Sequences, FiniteSets, TLC

(***************************************************************************)
(* Bounds of the explored input space.                                     *)
(***************************************************************************)
\* largest total_pages value a list page reports
MaxPages == 3
\* largest number of items on one list page of a small catalogue
MaxPageItems == 2
\* number of disturbed calls / records the environment injects in one run
MaxFaults == 2

(***************************************************************************)
(* Program constants.                                                      *)
(***************************************************************************)
\* config.START_PAGE (default)
START_PAGE == 1
\* config.MAX_RETRIES (default): stop_after_attempt(config.MAX_RETRIES)
MAX_RETRIES == 3
\* config.RETRY_STATUS_CODES
RETRY_STATUS_CODES == {500, 502, 503, 504}
\* the literal limit in submit_animals_batch: len(animals) > 100
SUBMIT_LIMIT == 100

VARIABLES
    pc,                  \* phase of run(): Idle, Extracting, Detailing, Transforming, Loading, Done
    result,              \* value returned by run(): "none" while running, "success", "failure"
    batch_size,          \* AnimalETLProcessor.batch_size
    dry_run,             \* cli: the --dry-run flag (run_dry_run instead of processor.run)
    max_retries,         \* AnimalETLProcessor.max_retries (cli: --max-retries)
    runs,                \* number of invocations of run() on this processor so far
    session,             \* AnimalAPIClient.session: "none", "open", "closed"
    stats,               \* AnimalETLProcessor.stats (ETLStats)
    current_page,        \* get_all_animals: current_page
    all_animals,         \* get_all_animals: all_animals (ids, in order)
    animal_summaries,    \* run: animal_summaries
    detail_index,        \* extract_animal_details: position of the for loop (1-based)
    animal_details,      \* extract_animal_details: animal_details
    failed_count,        \* extract_animal_details: failed_count
    transformed_animals, \* run: transformed_animals
    load_index,          \* load_animals: i of range(0, len, batch_size)
    total_submitted,     \* load_animals: total_submitted
    failed_batches,      \* load_animals: failed_batches
    batch_number,        \* load_animals: batch_number
    pageLog,             \* every get_animals_page call: requested page and the response
    detailLog,           \* every get_animal_detail call: requested id and whether it succeeded
    submitLog,           \* every submit_animals_batch call: the batch, whether a POST was made, outcome
    env,                 \* the remote API of this run: item counts of its pages, calls that may fail
    faults,              \* disturbances the remote API may still inject
    method,              \* _make_request: the request of the logical call under retry
    attempts,            \* _make_request: responses received so far by the logical call, in order
    call_state,          \* _make_request: "idle", "calling", "returned", "raised"
    record_step,         \* one record: "idle", "raw", "validated", "transformed"
    raw_record,          \* the id, friends and born_at given to AnimalDetail(...)
    record,              \* the AnimalDetail constructed from raw_record
    record_out,          \* what transform_animal(record) returned or raised
    friends_call         \* a call of transform_friends on raw_record's friends and its result

pipeVars == <<pc, result, batch_size, dry_run, max_retries, runs, session, stats, current_page, all_animals,
              animal_summaries, detail_index, animal_details, failed_count,
              transformed_animals, load_index, total_submitted, failed_batches,
              batch_number, pageLog, detailLog, submitLog, env, faults>>

callVars == <<method, attempts, call_state>>

recordVars == <<record_step, raw_record, record, record_out, friends_call>>

vars == <<pc, result, batch_size, dry_run, max_retries, runs, session, stats, current_page, all_animals,
          animal_summaries, detail_index, animal_details, failed_count,
          transformed_animals, load_index, total_submitted, failed_batches,
          batch_number, pageLog, detailLog, submitLog, env, faults,
          method, attempts, call_state,
          record_step, raw_record, record, record_out, friends_call>>

(***************************************************************************)
(* Helpers on sequences.                                                   *)
(***************************************************************************)
\* the ids first .. first + count - 1 as a sequence
IdRange(first, count) == [k \in 1..count |-> first + k - 1]

\* Python slice s[i:j] for 0 <= i (0-based, end exclusive, clipped to the length)
Slice(s, i, j) ==
    LET hi == IF j < Len(s) THEN j ELSE Len(s)
    IN  IF hi <= i THEN <<>> ELSE [k \in 1..(hi - i) |-> s[i + k]]

(***************************************************************************)
(* The remote API.  Each response is an input of the run, drawn when the   *)
(* call is made.  A response other than the regular one consumes one of    *)
(* the run's faults, which bounds the number of disturbances explored.     *)
(***************************************************************************)
\* batch sizes given to the processor over a small catalogue
MaxBatch == 3
\* largest value given to --max-retries
MaxRetriesOption == 4
\* largest number of invocations of run() on one processor
MaxRuns == 2

FaultKinds == {"page", "detail", "transform", "submit"}

\* a catalogue whose pages are small; any call may be disturbed
SmallCatalogue ==
    [item_counts |-> 0..MaxPageItems, fault_kinds |-> FaultKinds, runs |-> 1]

\* a catalogue of pages of at most one item that is never disturbed, for a caller
\* that invokes run() on the same processor up to MaxRuns times
RerunCatalogue == [item_counts |-> {0, 1}, fault_kinds |-> {}, runs |-> MaxRuns]

\* a catalogue whose size is around the submission limit; only submissions fail
LimitCatalogue ==
    [item_counts |-> {SUBMIT_LIMIT \div 2, SUBMIT_LIMIT \div 2 + 1},
     fault_kinds |-> {"submit"}, runs |-> 1]

SmallBatchSizes == (-1..MaxBatch) \cup {SUBMIT_LIMIT}

LimitBatchSizes == {SUBMIT_LIMIT \div 2, SUBMIT_LIMIT, SUBMIT_LIMIT + 1}

\* what the list endpoint may answer to a request for page p
PageResponses(p, counts) ==
    {[ok |-> FALSE, page |-> p, total_pages |-> 1, count |-> 0]}
    \cup [ok : {TRUE}, page : {0, p}, total_pages : 0..MaxPages, count : counts]

\* what the detail endpoint may answer to a request for one id
BornAtValues == {"2020-01-01", "not-a-date"}

\* the friends string of the detail responses: "a, b"
FriendsValue == <<"a", ",", " ", "b">>

DetailResponses ==
    {[ok |-> FALSE, born_at |-> "2020-01-01", friends |-> FriendsValue]}
    \cup [ok : {TRUE}, born_at : BornAtValues, friends : {FriendsValue}]

\* what the home endpoint may answer to a POST
SubmitResponses == [ok : BOOLEAN]

\* a page response is regular when it succeeds, is well formed and repeats the
\* total_pages of the page before it
RegularPage(resp, p, log) ==
    /\ resp.ok
    /\ resp.page = p
    /\ resp.total_pages >= 1
    /\ (log # <<>> => resp.total_pages = log[Len(log)].total_pages)

\* the fault a response costs: "" when it is the regular response
PageFault(resp, p, log) == IF RegularPage(resp, p, log) THEN "" ELSE "page"

DetailFault(resp) ==
    IF ~resp.ok THEN "detail"
    ELSE IF resp.born_at = "not-a-date" THEN "transform" ELSE ""

SubmitFault(resp) == IF resp.ok THEN "" ELSE "submit"

Allowed(kind) == kind = "" \/ (faults > 0 /\ kind \in env.fault_kinds)

Spend(kind) == IF kind = "" THEN faults ELSE faults - 1

(***************************************************************************)
(* models.py                                                               *)
(***************************************************************************)
\* variant of check_pagination: nothing is validated
check_pagination_none(resp) == TRUE

\* PaginatedResponse.check_pagination: page and total_pages must be >= 1
check_pagination(resp) == resp.page >= 1 /\ resp.total_pages >= 1

(***************************************************************************)
(* Values of the records.  A string of the friends field is a sequence of  *)
(* characters; friends is absent, a string or a list of strings.  A        *)
(* datetime is an hour of 2020-01-01, naive or with a UTC offset in hours; *)
(* born_at is absent, a string or a datetime.                              *)
(***************************************************************************)
NoneFriends == [kind |-> "none", str |-> <<>>, list |-> <<>>]

StrFriends(chars) == [kind |-> "str", str |-> chars, list |-> <<>>]

ListFriends(entries) == [kind |-> "list", str |-> <<>>, list |-> entries]

NaiveMidnight == [hour |-> 0, aware |-> FALSE, offset |-> 0]

NoneBornAt == [kind |-> "none", text |-> "", dt |-> NaiveMidnight]

StrBornAt(text) == [kind |-> "str", text |-> text, dt |-> NaiveMidnight]

DatetimeBornAt(dt) == [kind |-> "datetime", text |-> "", dt |-> dt]

\* Optional[str] of TransformedAnimal.born_at
NoText == [present |-> FALSE, text |-> ""]

SomeText(text) == [present |-> TRUE, text |-> text]

\* TransformationError(message, animal_id, field); has_id is "animal_id is not None"
TransformationError(has_id, animal_id, field) ==
    [has_id |-> has_id, animal_id |-> animal_id, field |-> field]

NoError == TransformationError(FALSE, 0, "")

(***************************************************************************)
(* models.py: the validators of AnimalDetail                               *)
(***************************************************************************)
\* the entries of a list that are truthy: "[str(item) for item in v if item]"
RECURSIVE TruthyItems(_)
TruthyItems(entries) ==
    IF entries = <<>> THEN <<>>
    ELSE (IF Head(entries) # <<>> THEN <<Head(entries)>> ELSE <<>>)
         \o TruthyItems(Tail(entries))

\* AnimalDetail.validate_friends
validate_friends(v) ==
    IF v.kind = "str" THEN v
    ELSE IF v.kind = "list" THEN ListFriends(TruthyItems(v.list))
    ELSE StrFriends(<<>>)

\* AnimalDetail.validate_born_at
validate_born_at(v) ==
    IF v.kind = "none" THEN NoneBornAt
    ELSE IF v.kind = "str" /\ v.text = "" THEN NoneBornAt
    ELSE v

\* AnimalDetail(id=..., friends=..., born_at=...)
AnimalDetail(id, friends, born_at) ==
    [id |-> id, friends |-> validate_friends(friends),
     born_at |-> validate_born_at(born_at)]

(***************************************************************************)
(* Python and dateutil on the values of this model                         *)
(***************************************************************************)
\* str.strip() for the blank
RECURSIVE LStrip(_)
LStrip(s) == IF s # <<>> /\ Head(s) = " " THEN LStrip(Tail(s)) ELSE s

RECURSIVE RStrip(_)
RStrip(s) ==
    IF s # <<>> /\ s[Len(s)] = " " THEN RStrip(SubSeq(s, 1, Len(s) - 1)) ELSE s

Strip(s) == RStrip(LStrip(s))

\* the position of the first comma of s, 0 when it has none
FirstComma(s) ==
    IF \E i \in 1..Len(s) : s[i] = ","
    THEN CHOOSE i \in 1..Len(s) : s[i] = "," /\ \A j \in 1..(i - 1) : s[j] # ","
    ELSE 0

\* str.split(",")
RECURSIVE Split(_)
Split(s) ==
    LET i == FirstComma(s)
    IN  IF i = 0 THEN <<s>>
        ELSE <<SubSeq(s, 1, i - 1)>> \o Split(SubSeq(s, i + 1, Len(s)))

TwoDigits(n) ==
    <<"00", "01", "02", "03", "04", "05", "06", "07", "08", "09", "10", "11",
      "12", "13", "14", "15", "16", "17", "18", "19", "20", "21", "22", "23">>[n + 1]

OffsetText(dt) ==
    IF ~dt.aware THEN ""
    ELSE IF dt.offset >= 0 THEN "+" \o TwoDigits(dt.offset) \o ":00"
    ELSE "-" \o TwoDigits(0 - dt.offset) \o ":00"

\* datetime.isoformat()
IsoFormat(dt) == "2020-01-01T" \o TwoDigits(dt.hour) \o ":00:00" \o OffsetText(dt)

\* datetime.replace(tzinfo=tz.UTC)
ReplaceUtc(dt) == [hour |-> dt.hour, aware |-> TRUE, offset |-> 0]

\* datetime.astimezone(tz.UTC) of an aware datetime
AsTimezoneUtc(dt) == [hour |-> dt.hour - dt.offset, aware |-> TRUE, offset |-> 0]

\* texts dateutil's parser rejects with ParserError, and one it fails on with
\* OverflowError
UnparseableTexts == {"not-a-date"}

OverflowTexts == {"99999999999999999999999999"}

\* born_at_val.strip() == ""
BlankTexts == {"", "   "}

\* dateutil's parser on the strings of this model
Parseable(born_at) == born_at \notin UnparseableTexts /\ born_at \notin OverflowTexts

\* parser.parse(text) of the parseable texts of this model: a date alone is
\* midnight without timezone, an offset makes the datetime aware
ParseDate(text) ==
    CASE text = "2020-01-01" -> [hour |-> 0, aware |-> FALSE, offset |-> 0]
      [] text = "2020-01-01T05:00:00" -> [hour |-> 5, aware |-> FALSE, offset |-> 0]
      [] text = "2020-01-01T05:00:00+05:00" -> [hour |-> 5, aware |-> TRUE, offset |-> 5]
      [] text = "2020-01-01T12:00:00-03:00" -> [hour |-> 12, aware |-> TRUE, offset |-> -3]
      [] text = "2020-01-01T07:00:00+00:00" -> [hour |-> 7, aware |-> TRUE, offset |-> 0]
      [] OTHER -> NaiveMidnight

(***************************************************************************)
(* transformers.py                                                         *)
(***************************************************************************)
\* the pieces of a split, each stripped
RECURSIVE StripAll(_)
StripAll(pieces) ==
    IF pieces = <<>> THEN <<>> ELSE <<Strip(Head(pieces))>> \o StripAll(Tail(pieces))

\* "[friend for friend in friends_list if friend]"
RECURSIVE NonEmpty(_)
NonEmpty(pieces) ==
    IF pieces = <<>> THEN <<>>
    ELSE (IF Head(pieces) # <<>> THEN <<Head(pieces)>> ELSE <<>>) \o NonEmpty(Tail(pieces))

\* variant of transform_friends: the empty pieces are kept
transform_friends_keep_empty(friends_str) ==
    IF friends_str.kind = "none" THEN <<>>
    ELSE IF friends_str.str = <<>> THEN <<>>
    ELSE IF Strip(friends_str.str) = <<>> THEN <<>>
    ELSE StripAll(Split(friends_str.str))

\* transform_friends on a string or None
transform_friends(friends_str) ==
    IF friends_str.kind = "none" THEN <<>>
    ELSE IF friends_str.str = <<>> THEN <<>>
    ELSE IF Strip(friends_str.str) = <<>> THEN <<>>
    ELSE NonEmpty(StripAll(Split(friends_str.str)))

\* the timezone normalization of transform_born_at: naive is taken as UTC
NormalizeUtc(dt) == IF ~dt.aware THEN ReplaceUtc(dt) ELSE AsTimezoneUtc(dt)

\* transform_born_at: the ISO 8601 text in UTC or None, or the exception raised
\* ("TransformationError" with field born_at, or the parser's OverflowError)
transform_born_at(born_at_val) ==
    IF born_at_val.kind = "none"
    THEN [raised |-> "", value |-> NoText]
    ELSE IF born_at_val.kind = "datetime"
    THEN [raised |-> "", value |-> SomeText(IsoFormat(NormalizeUtc(born_at_val.dt)))]
    ELSE IF born_at_val.text \in BlankTexts
    THEN [raised |-> "", value |-> NoText]
    ELSE IF born_at_val.text \in UnparseableTexts
    THEN [raised |-> "TransformationError", value |-> NoText]
    ELSE IF born_at_val.text \in OverflowTexts
    THEN [raised |-> "OverflowError", value |-> NoText]
    ELSE [raised |-> "",
          value |-> SomeText(IsoFormat(NormalizeUtc(ParseDate(born_at_val.text))))]

\* transform_animal, friends: a list is passed on as it is
TransformedFriends(animal) ==
    IF animal.friends.kind = "list" THEN animal.friends.list
    ELSE transform_friends(animal.friends)

\* transform_animal, born_at: a datetime is formatted as it is
TransformedBornAt(animal) ==
    IF animal.born_at.kind = "datetime"
    THEN [raised |-> "", value |-> SomeText(IsoFormat(animal.born_at.dt))]
    ELSE transform_born_at(animal.born_at)

\* transform_animal: the TransformedAnimal, or the TransformationError raised: one
\* from transform_born_at is re-raised as it is, any other exception is wrapped
\* with the animal's id
transform_animal(animal) ==
    LET b == TransformedBornAt(animal)
        v == [id |-> animal.id, friends |-> TransformedFriends(animal),
              born_at |-> b.value]
    IN  IF b.raised = "" THEN [ok |-> TRUE, value |-> v, error |-> NoError]
        ELSE IF b.raised = "TransformationError"
        THEN [ok |-> FALSE, value |-> v,
              error |-> TransformationError(FALSE, 0, "born_at")]
        ELSE [ok |-> FALSE, value |-> v,
              error |-> TransformationError(TRUE, animal.id, "")]

\* variant of transform_animals_batch: the first failure ends the batch
RECURSIVE transform_animals_batch_abort(_)
transform_animals_batch_abort(animals) ==
    IF animals = <<>> THEN <<>>
    ELSE LET t == transform_animal(Head(animals))
         IN  IF t.ok THEN <<t.value>> \o transform_animals_batch_abort(Tail(animals))
             ELSE <<>>

\* transform_animals_batch: the transformed images of the records that transform
RECURSIVE transform_animals_batch(_)
transform_animals_batch(animals) ==
    IF animals = <<>> THEN <<>>
    ELSE LET t == transform_animal(Head(animals))
         IN  (IF t.ok THEN <<t.value>> ELSE <<>>) \o transform_animals_batch(Tail(animals))

(***************************************************************************)
(* etl_processor.py: ETLStats                                              *)
(***************************************************************************)
ETLStats ==
    [total_animals_found |-> 0, total_animals_detailed |-> 0,
     total_animals_transformed |-> 0, total_animals_submitted |-> 0,
     total_batches_submitted |-> 0, failed_details |-> 0,
     failed_transformations |-> 0, failed_submissions |-> 0,
     start_time |-> "None", end_time |-> "None"]

(***************************************************************************)
(* api_client.py: the logical calls, as functions of the response          *)
(***************************************************************************)
\* get_animals_page: the page parsed, or an APIError (transport failure after
\* the retries, or a response PaginatedResponse rejects)
get_animals_page(resp) == resp.ok /\ check_pagination(resp)

\* get_all_animals: all_animals.extend(page_response.items)
Extend(animals, items) == animals \o items

\* variant of NextPage: every other page is requested
NextPageSkip(page) == page + 2

\* get_all_animals: "current_page += 1"
NextPage(page) == page + 1

\* variant of ExtractionDone: one more page is requested
ExtractionDoneLate(page, total_pages) == page > total_pages

\* get_all_animals: the while loop stops at "current_page >= total_pages"
ExtractionDone(page, total_pages) == page >= total_pages

\* variant of submit_animals_batch: a batch of exactly the limit is rejected too
submit_animals_batch_strict(batch, resp) ==
    IF Len(batch) >= SUBMIT_LIMIT
    THEN [posted |-> FALSE, ok |-> FALSE]
    ELSE [posted |-> TRUE, ok |-> resp.ok]

\* submit_animals_batch: ValueError without a request above the limit, else the POST
submit_animals_batch(batch, resp) ==
    IF Len(batch) > SUBMIT_LIMIT
    THEN [posted |-> FALSE, ok |-> FALSE]
    ELSE [posted |-> TRUE, ok |-> resp.ok]

(***************************************************************************)
(* etl_processor.py: the loops of the phases                               *)
(***************************************************************************)
\* variant of DetailingDone: the loop stops one summary early
DetailingDoneEarly(index, summaries) == index >= Len(summaries)

\* "for animal_summary in animal_summaries" is over once the index passed the end
DetailingDone(index, summaries) == index > Len(summaries)

\* variant of CountFailure: a failed fetch is not counted
CountFailureNever(failed, ok) == failed

\* "except APIError: failed_count += 1; continue"
CountFailure(failed, ok) == IF ok THEN failed ELSE failed + 1

\* variant of RangeHas: only full batches are taken
RangeHasFullOnly(i, n, step) == step > 0 /\ i + step <= n

\* range(0, n, step) still holds i (step = 0 raises ValueError before the loop)
RangeHas(i, n, step) == step > 0 /\ i < n

\* variant of BatchAt: the slice ends one record early
BatchAtShort(animals, i, size) == Slice(animals, i, i + size - 1)

\* transformed_animals[i:i + self.batch_size]
BatchAt(animals, i, size) == Slice(animals, i, i + size)

\* variant of LoadSuccess: failed batches are ignored
LoadSuccessAlways(failed) == TRUE

\* load_animals returns failed_batches == 0
LoadSuccess(failed) == failed = 0

BoolResult(b) == IF b THEN "success" ELSE "failure"

\* variant of SessionAfter: leaving the with block does not close the session
SessionAfterLeak(leaves, sess) == sess

\* "with AnimalAPIClient(...) as client": __exit__ closes the session on every way
\* out of the block, a return and an exception alike
SessionAfter(leaves, sess) == IF leaves THEN "closed" ELSE sess

\* variant of ResultNoSummaries: an empty extraction counts as a failure
ResultNoSummariesFailure == "failure"

\* run and run_dry_run: "if not animal_summaries: return True"
ResultNoSummaries == "success"

\* the phase after the details loop: run returns False without details,
\* run_dry_run goes on to transform whatever it has
AfterDetailing(dry, details) ==
    IF ~dry /\ details = <<>> THEN "Done" ELSE "Transforming"

\* variant of AfterTransform: the dry-run flag is ignored
AfterTransformLoads(dry, transformed) ==
    IF transformed = <<>> THEN "Done" ELSE "Loading"

\* variant of AfterTransform: run loads even when nothing was transformed
AfterTransformNoCheck(dry, transformed) ==
    IF dry THEN "Done" ELSE "Loading"

\* the phase after transform_animals: run_dry_run reports and returns, run returns
\* False without transformed animals and loads otherwise
AfterTransform(dry, transformed) ==
    IF dry THEN "Done"
    ELSE IF transformed = <<>> THEN "Done" ELSE "Loading"

\* ETLStats.duration_seconds is not None
DurationDefined(st) == st.start_time # "None" /\ st.end_time # "None"

\* _log_final_stats formats duration_seconds with ":.2f", a TypeError on None
LogFinalStatsRaises(st) == ~DurationDefined(st)

\* run_dry_run after the transformation: True, unless _log_final_stats raises
DryRunResult(st) == IF LogFinalStatsRaises(st) THEN "failure" ELSE "success"

(***************************************************************************)
(* Initial state: a processor constructed with a batch size, not yet run.  *)
(***************************************************************************)
\* the values of --max-retries other than the default of config.MAX_RETRIES
RetryOptions == (1..MaxRetriesOption) \ {MAX_RETRIES}

Scenarios ==
    [env : {SmallCatalogue}, batch_size : SmallBatchSizes, faults : {MaxFaults},
     dry_run : BOOLEAN, max_retries : {MAX_RETRIES}]
    \cup [env : {LimitCatalogue}, batch_size : LimitBatchSizes, faults : {1},
          dry_run : {FALSE}, max_retries : {MAX_RETRIES}]
    \cup [env : {SmallCatalogue}, batch_size : {SUBMIT_LIMIT}, faults : {0},
          dry_run : {FALSE}, max_retries : RetryOptions]
    \cup [env : {RerunCatalogue}, batch_size : {SUBMIT_LIMIT}, faults : {0},
          dry_run : {FALSE}, max_retries : {MAX_RETRIES}]

InitCall ==
    /\ method = "GET"
    /\ attempts = <<>>
    /\ call_state = "idle"

InitPipe(sc) ==
    /\ pc = "Idle"
    /\ result = "none"
    /\ batch_size = sc.batch_size
    /\ dry_run = sc.dry_run
    /\ max_retries = sc.max_retries
    /\ runs = 1
    /\ session = "none"
    /\ stats = ETLStats
    /\ current_page = START_PAGE
    /\ all_animals = <<>>
    /\ animal_summaries = <<>>
    /\ detail_index = 1
    /\ animal_details = <<>>
    /\ failed_count = 0
    /\ transformed_animals = <<>>
    /\ load_index = 0
    /\ total_submitted = 0
    /\ failed_batches = 0
    /\ batch_number = 0
    /\ pageLog = <<>>
    /\ detailLog = <<>>
    /\ submitLog = <<>>
    /\ env = sc.env
    /\ faults = sc.faults

\* no record is being transformed on its own
NoFriendsCall == [called |-> FALSE, value |-> <<>>]

NoRecordOut == [ok |-> FALSE, value |-> [id |-> 0, friends |-> <<>>, born_at |-> NoText],
                error |-> NoError]

InitRecord(at, input) ==
    /\ record_step = at
    /\ raw_record = input
    /\ record = AnimalDetail(input.id, NoneFriends, NoneBornAt)
    /\ record_out = NoRecordOut
    /\ friends_call = NoFriendsCall

Init ==
    /\ \E sc \in Scenarios : InitPipe(sc)
    /\ InitCall
    /\ InitRecord("idle", [id |-> 0, friends |-> NoneFriends, born_at |-> NoneBornAt])

(***************************************************************************)
(* run(): entry.  start_time is taken and the client is created.           *)
(* run_dry_run(): entry.  Only the client is created.                      *)
(***************************************************************************)
Start ==
    /\ pc = "Idle"
    /\ pc' = "Extracting"
    /\ stats' = IF dry_run THEN stats ELSE [stats EXCEPT !.start_time = "set"]
    /\ session' = "open"
    /\ current_page' = START_PAGE
    /\ all_animals' = <<>>
    /\ UNCHANGED <<result, batch_size, animal_summaries, detail_index, animal_details,
                   failed_count, transformed_animals, load_index, total_submitted,
                   failed_batches, batch_number, pageLog, detailLog, submitLog, env,
                   faults>>
    /\ UNCHANGED <<dry_run, max_retries, runs>>
    /\ UNCHANGED callVars
    /\ UNCHANGED recordVars

(***************************************************************************)
(* Extracting: one iteration of get_all_animals' loop.  The last iteration *)
(* carries the rest of extract_animals and run()'s "if not                 *)
(* animal_summaries: return True".  An APIError leaves run() through its   *)
(* except clause, which sets end_time and returns False.                   *)
(***************************************************************************)
FetchPage ==
    /\ pc = "Extracting"
    /\ \E resp \in PageResponses(current_page, env.item_counts) :
        LET fault  == PageFault(resp, current_page, pageLog)
            parsed == get_animals_page(resp)
            served == IF resp.ok THEN IdRange(Len(all_animals) + 1, resp.count) ELSE <<>>
            all    == IF parsed THEN Extend(all_animals, served) ELSE all_animals
            last   == parsed /\ ExtractionDone(current_page, resp.total_pages)
        IN  /\ Allowed(fault)
            /\ faults' = Spend(fault)
            /\ pageLog' = Append(pageLog,
                   [page |-> current_page, ok |-> resp.ok, reported_page |-> resp.page,
                    total_pages |-> resp.total_pages, items |-> served])
            /\ all_animals' = all
            /\ current_page' = IF parsed /\ ~last THEN NextPage(current_page)
                               ELSE current_page
            /\ animal_summaries' = IF last THEN all ELSE animal_summaries
            /\ stats' = IF last THEN [stats EXCEPT !.total_animals_found = Len(all)]
                        ELSE IF ~parsed /\ ~dry_run THEN [stats EXCEPT !.end_time = "set"]
                        ELSE stats
            /\ pc' = IF ~parsed THEN "Done"
                     ELSE IF ~last THEN "Extracting"
                     ELSE IF all = <<>> THEN "Done" ELSE "Detailing"
            /\ result' = IF ~parsed THEN "failure"
                         ELSE IF last /\ all = <<>> THEN ResultNoSummaries ELSE result
            /\ session' = SessionAfter(~parsed \/ (last /\ all = <<>>), session)
    /\ UNCHANGED <<batch_size, detail_index, animal_details, failed_count,
                   transformed_animals, load_index, total_submitted, failed_batches,
                   batch_number, detailLog, submitLog, env>>
    /\ UNCHANGED <<dry_run, max_retries, runs>>
    /\ UNCHANGED callVars
    /\ UNCHANGED recordVars

(***************************************************************************)
(* Detailing: one iteration of extract_animal_details' loop.  An APIError  *)
(* is counted and the loop continues.  The last iteration carries the      *)
(* statistics and run()'s "if not animal_details: return False".           *)
(***************************************************************************)
FetchDetail ==
    /\ pc = "Detailing"
    /\ \E resp \in DetailResponses :
        LET id      == animal_summaries[detail_index]
            fault   == DetailFault(resp)
            details == IF resp.ok
                       THEN Append(animal_details,
                                AnimalDetail(id, StrFriends(resp.friends),
                                             StrBornAt(resp.born_at)))
                       ELSE animal_details
            failed  == CountFailure(failed_count, resp.ok)
            last    == DetailingDone(detail_index + 1, animal_summaries)
        IN  /\ Allowed(fault)
            /\ faults' = Spend(fault)
            /\ detailLog' = Append(detailLog, [id |-> id, ok |-> resp.ok])
            /\ animal_details' = details
            /\ failed_count' = failed
            /\ detail_index' = detail_index + 1
            /\ stats' = IF last
                        THEN [stats EXCEPT !.total_animals_detailed = Len(details),
                                           !.failed_details = failed]
                        ELSE stats
            /\ pc' = IF ~last THEN "Detailing" ELSE AfterDetailing(dry_run, details)
            /\ result' = IF last /\ AfterDetailing(dry_run, details) = "Done"
                         THEN "failure" ELSE result
            /\ session' = SessionAfter(last /\ AfterDetailing(dry_run, details) = "Done",
                                       session)
    /\ UNCHANGED <<batch_size, current_page, all_animals, animal_summaries,
                   transformed_animals, load_index, total_submitted, failed_batches,
                   batch_number, pageLog, submitLog, env>>
    /\ UNCHANGED <<dry_run, max_retries, runs>>
    /\ UNCHANGED callVars
    /\ UNCHANGED recordVars

(***************************************************************************)
(* Transforming: transform_animals over all the details, then run()'s      *)
(* "if not transformed_animals: return False", or run_dry_run()'s report   *)
(* through _log_final_stats and its return.                                *)
(***************************************************************************)
Transform ==
    /\ pc = "Transforming"
    /\ LET transformed == transform_animals_batch(animal_details)
           after       == AfterTransform(dry_run, transformed)
           counted     == [stats EXCEPT
                  !.total_animals_transformed = Len(transformed),
                  !.failed_transformations = Len(animal_details) - Len(transformed)]
       IN  /\ transformed_animals' = transformed
           /\ stats' = counted
           /\ pc' = after
           /\ result' = IF after # "Done" THEN result
                        ELSE IF dry_run THEN DryRunResult(counted) ELSE "failure"
           /\ session' = SessionAfter(after = "Done", session)
    /\ load_index' = 0
    /\ total_submitted' = 0
    /\ failed_batches' = 0
    /\ batch_number' = 0
    /\ UNCHANGED <<batch_size, current_page, all_animals, animal_summaries, detail_index,
                   animal_details, failed_count, pageLog, detailLog, submitLog, env,
                   faults>>
    /\ UNCHANGED <<dry_run, max_retries, runs>>
    /\ UNCHANGED callVars
    /\ UNCHANGED recordVars

(***************************************************************************)
(* Loading: one iteration of load_animals' loop.  range() with a step of 0 *)
(* raises ValueError, which run()'s except clause turns into False; an     *)
(* empty range goes straight to the end of load_animals.  The last         *)
(* iteration carries the statistics, end_time and run()'s return.          *)
(***************************************************************************)
LoadBatch ==
    /\ pc = "Loading"
    /\ \E resp \in SubmitResponses :
        LET n       == Len(transformed_animals)
            raises  == batch_size = 0
            enters  == RangeHas(load_index, n, batch_size)
            batch   == BatchAt(transformed_animals, load_index, batch_size)
            out     == submit_animals_batch(batch, resp)
            fault   == IF enters /\ out.posted THEN SubmitFault(resp) ELSE ""
            sub     == IF enters /\ out.ok THEN total_submitted + Len(batch)
                       ELSE total_submitted
            failed  == IF enters /\ ~out.ok THEN failed_batches + 1 ELSE failed_batches
            number  == IF enters THEN batch_number + 1 ELSE batch_number
            next    == IF enters THEN load_index + batch_size ELSE load_index
            last    == ~raises /\ ~RangeHas(next, n, batch_size)
        IN  /\ (IF enters /\ out.posted THEN TRUE ELSE resp.ok)
            /\ Allowed(fault)
            /\ faults' = Spend(fault)
            /\ submitLog' = IF enters
                            THEN Append(submitLog,
                                   [batch |-> batch, posted |-> out.posted, ok |-> out.ok])
                            ELSE submitLog
            /\ total_submitted' = sub
            /\ failed_batches' = failed
            /\ batch_number' = number
            /\ load_index' = next
            /\ stats' = IF raises THEN [stats EXCEPT !.end_time = "set"]
                        ELSE IF last
                        THEN [stats EXCEPT !.total_animals_submitted = sub,
                                           !.total_batches_submitted = number - failed,
                                           !.failed_submissions = failed,
                                           !.end_time = "set"]
                        ELSE stats
            /\ pc' = IF raises \/ last THEN "Done" ELSE "Loading"
            /\ result' = IF raises THEN "failure"
                         ELSE IF last THEN BoolResult(LoadSuccess(failed)) ELSE result
            /\ session' = SessionAfter(raises \/ last, session)
    /\ UNCHANGED <<batch_size, current_page, all_animals, animal_summaries, detail_index,
                   animal_details, failed_count, transformed_animals, pageLog, detailLog,
                   env>>
    /\ UNCHANGED <<dry_run, max_retries, runs>>
    /\ UNCHANGED callVars
    /\ UNCHANGED recordVars

(***************************************************************************)
(* The caller invokes run() again on the same processor after it returned. *)
(* The locals of the returned run are gone and the requests are logged     *)
(* anew; self.stats is the object __init__ created and is not touched.     *)
(***************************************************************************)
RunAgain ==
    /\ pc = "Done"
    /\ ~dry_run
    /\ runs < env.runs
    /\ runs' = runs + 1
    /\ pc' = "Idle"
    /\ result' = "none"
    /\ session' = "none"
    /\ current_page' = START_PAGE
    /\ all_animals' = <<>>
    /\ animal_summaries' = <<>>
    /\ detail_index' = 1
    /\ animal_details' = <<>>
    /\ failed_count' = 0
    /\ transformed_animals' = <<>>
    /\ load_index' = 0
    /\ total_submitted' = 0
    /\ failed_batches' = 0
    /\ batch_number' = 0
    /\ pageLog' = <<>>
    /\ detailLog' = <<>>
    /\ submitLog' = <<>>
    /\ UNCHANGED <<stats, batch_size, dry_run, max_retries, env, faults>>
    /\ UNCHANGED callVars
    /\ UNCHANGED recordVars

Next ==
    \/ Start
    \/ FetchPage
    \/ FetchDetail
    \/ Transform
    \/ LoadBatch
    \/ RunAgain

Spec == Init /\ [][Next]_vars

\* the step that leaves Transforming: transform_animals returned
LeaveTransforming == pc = "Transforming" /\ pc' \in {"Loading", "Done"}

\* the run is one sequential program: while a step of it can be taken, one is
\* taken (every call it makes returns or raises, and transform_animals returns)
SpecFair ==
    /\ Init /\ [][Next]_vars
    /\ WF_vars(Start)
    /\ WF_vars(FetchPage)
    /\ WF_vars(FetchDetail)
    /\ WF_pc(LeaveTransforming)
    /\ WF_vars(LoadBatch)

(***************************************************************************)
(* api_client.py: _make_request under tenacity's @retry.  One logical call *)
(* is a sequence of attempts; each attempt receives one response.          *)
(***************************************************************************)
\* what one attempt may receive: an HTTP status, a timeout or a connection error
StatusCodes == {200, 400, 404, 429, 500, 501, 502, 503, 504}

Responses ==
    [kind : {"http"}, code : StatusCodes]
    \cup {[kind |-> "timeout", code |-> 0], [kind |-> "connection", code |-> 0]}

\* requests' raise_for_status: an HTTPError for 4xx and 5xx
IsHttpError(r) == r.kind = "http" /\ r.code >= 400

\* the body of _make_request on one response: "" when the response is returned,
\* else the type of the exception that leaves the function
AttemptOutcome(r) ==
    IF r.kind = "timeout" THEN "APIError"
    ELSE IF r.kind = "connection" THEN "APIError"
    ELSE IF r.code \in RETRY_STATUS_CODES THEN "APIError"
    ELSE IF IsHttpError(r)
         THEN (IF r.code \notin RETRY_STATUS_CODES THEN "APIError" ELSE "HTTPError")
    ELSE ""

\* variant of RetryPredicate: only the exceptions of requests are retried
RetryPredicateRequestsOnly(exc) == exc \in {"RequestException", "HTTPError"}

\* retry=retry_if_exception_type((requests.RequestException, APIError))
RetryPredicate(exc) == exc \in {"RequestException", "HTTPError", "APIError"}

\* stop=stop_after_attempt(config.MAX_RETRIES)
StopAfterAttempt(attempt_number) == attempt_number >= MAX_RETRIES

Methods == {"GET", "POST"}

\* a logical call starts: get_animals_page, get_animal_detail (GET) or
\* submit_animals_batch (POST) calls _make_request
BeginCall ==
    /\ call_state # "calling"
    /\ \E m \in Methods : method' = m
    /\ attempts' = <<>>
    /\ call_state' = "calling"
    /\ UNCHANGED pipeVars
    /\ UNCHANGED recordVars

\* one attempt: session.request, then tenacity decides to return, retry or reraise
Attempt ==
    /\ call_state = "calling"
    /\ \E r \in Responses :
        LET exc == AttemptOutcome(r)
            n   == Len(attempts) + 1
        IN  /\ attempts' = Append(attempts, r)
            /\ call_state' = IF exc = "" THEN "returned"
                             ELSE IF ~RetryPredicate(exc) THEN "raised"
                             ELSE IF StopAfterAttempt(n) THEN "raised"
                             ELSE "calling"
    /\ UNCHANGED method
    /\ UNCHANGED pipeVars
    /\ UNCHANGED recordVars

NextCall ==
    \/ BeginCall
    \/ Attempt

SpecCall == Init /\ [][NextCall]_vars

(***************************************************************************)
(* One record through models.py and transformers.py: AnimalDetail(...) is  *)
(* constructed from a raw id, friends and born_at, and transform_animal is *)
(* applied to it; transform_friends is also called on the raw friends.     *)
(***************************************************************************)
\* longest friends string, apart from the example
MaxStrLen == 3
\* longest friends list
MaxListLen == 2
\* largest id of a record
MaxRecordId == 2

Chars == {"a", "b", ",", " "}

\* the sequences over S of length at most n
RECURSIVE SeqsUpTo(_, _)
SeqsUpTo(S, n) ==
    IF n = 0 THEN {<<>>}
    ELSE LET shorter == SeqsUpTo(S, n - 1)
         IN  shorter \cup {Append(q, x) : q \in shorter, x \in S}

\* the friends string of the example: "a, b,,c"
ExampleFriends == <<"a", ",", " ", "b", ",", ",", "c">>

ListEntries == {<<>>, <<" ">>, <<"a">>, <<" ", "b">>}

FriendsInputs ==
    {NoneFriends}
    \cup {StrFriends(q) : q \in SeqsUpTo(Chars, MaxStrLen) \cup {ExampleFriends}}
    \cup {ListFriends(l) : l \in SeqsUpTo(ListEntries, MaxListLen)}

Hours == {5, 12}

Offsets == {-3, 0, 5}

Datetimes ==
    [hour : Hours, aware : {FALSE}, offset : {0}]
    \cup [hour : Hours, aware : {TRUE}, offset : Offsets]

BornAtTexts ==
    BlankTexts \cup UnparseableTexts \cup OverflowTexts
    \cup {"2020-01-01", "2020-01-01T05:00:00", "2020-01-01T05:00:00+05:00",
          "2020-01-01T12:00:00-03:00", "2020-01-01T07:00:00+00:00"}

BornAtInputs ==
    {NoneBornAt} \cup {StrBornAt(t) : t \in BornAtTexts}
    \cup {DatetimeBornAt(dt) : dt \in Datetimes}

RawRecords == [id : 1..MaxRecordId, friends : FriendsInputs, born_at : BornAtInputs]

InitTransform ==
    /\ InitPipe([env |-> SmallCatalogue, batch_size |-> SUBMIT_LIMIT,
                 faults |-> 0, dry_run |-> FALSE, max_retries |-> MAX_RETRIES])
    /\ InitCall
    /\ \E input \in RawRecords : InitRecord("raw", input)

\* AnimalDetail(**data): the validators run on the raw fields
Construct ==
    /\ record_step = "raw"
    /\ record' = AnimalDetail(raw_record.id, raw_record.friends, raw_record.born_at)
    /\ record_step' = "validated"
    /\ UNCHANGED <<raw_record, record_out, friends_call>>
    /\ UNCHANGED pipeVars
    /\ UNCHANGED callVars

\* transform_animal(animal)
TransformRecord ==
    /\ record_step = "validated"
    /\ record_out' = transform_animal(record)
    /\ record_step' = "transformed"
    /\ UNCHANGED <<raw_record, record, friends_call>>
    /\ UNCHANGED pipeVars
    /\ UNCHANGED callVars

\* transform_friends(friends_str) on a string or None
NormalizeFriends ==
    /\ record_step # "idle"
    /\ ~friends_call.called
    /\ raw_record.friends.kind # "list"
    /\ friends_call' = [called |-> TRUE, value |-> transform_friends(raw_record.friends)]
    /\ UNCHANGED <<record_step, raw_record, record, record_out>>
    /\ UNCHANGED pipeVars
    /\ UNCHANGED callVars

NextTransform ==
    \/ Construct
    \/ TransformRecord
    \/ NormalizeFriends

SpecTransform == InitTransform /\ [][NextTransform]_vars

(***************************************************************************)
(* Properties.                                                             *)
(***************************************************************************)
PhaseRank(p) ==
    CASE p = "Idle" -> 0
      [] p = "Extracting" -> 1
      [] p = "Detailing" -> 2
      [] p = "Transforming" -> 3
      [] p = "Loading" -> 4
      [] p = "Done" -> 5

\* the items of the logged pages, concatenated in the order of the requests
RECURSIVE ConcatItems(_)
ConcatItems(log) ==
    IF log = <<>> THEN <<>> ELSE log[1].items \o ConcatItems(Tail(log))

\* the batches handed to submit_animals_batch, concatenated in the order of the calls
RECURSIVE ConcatBatches(_)
ConcatBatches(log) ==
    IF log = <<>> THEN <<>> ELSE log[1].batch \o ConcatBatches(Tail(log))

\* the entries of a log that satisfy ok
RECURSIVE CountOk(_)
CountOk(log) ==
    IF log = <<>> THEN 0 ELSE (IF log[1].ok THEN 1 ELSE 0) + CountOk(Tail(log))

\* the ids of the detail fetches that succeeded, in the order of the calls
RECURSIVE OkIds(_)
OkIds(log) ==
    IF log = <<>> THEN <<>>
    ELSE (IF log[1].ok THEN <<log[1].id>> ELSE <<>>) \o OkIds(Tail(log))

\* a logged list-page fetch failed: transport failure or a malformed page
PageFailed(e) == ~e.ok \/ e.reported_page < 1 \/ e.total_pages < 1

\* the last list-page fetch has returned: it succeeded and was the final page
ExtractionComplete ==
    /\ pageLog # <<>>
    /\ ~PageFailed(pageLog[Len(pageLog)])
    /\ pageLog[Len(pageLog)].page >= pageLog[Len(pageLog)].total_pages

C1_Step ==
    /\ PhaseRank(pc') >= PhaseRank(pc)
    /\ (pc' # pc => (pc' = "Done" \/ PhaseRank(pc') = PhaseRank(pc) + 1))
    /\ (pageLog' # pageLog =>
            /\ pc = "Extracting"
            /\ detailLog' = <<>> /\ transformed_animals' = <<>> /\ submitLog' = <<>>)
    /\ (detailLog' # detailLog =>
            /\ pc = "Detailing"
            /\ ExtractionComplete /\ pageLog' = pageLog
            /\ transformed_animals' = <<>> /\ submitLog' = <<>>)
    /\ (transformed_animals' # transformed_animals =>
            /\ pc = "Transforming"
            /\ Len(detailLog) = Len(animal_summaries) /\ detailLog' = detailLog
            /\ submitLog' = <<>>)
    /\ (submitLog' # submitLog =>
            /\ pc = "Loading"
            /\ Len(detailLog) = Len(animal_summaries)
            /\ stats.total_animals_transformed + stats.failed_transformations
                   = Len(animal_details)
            /\ pageLog' = pageLog /\ detailLog' = detailLog
            /\ transformed_animals' = transformed_animals)

\* C1: the phases occur in the order Extracting, Detailing, Transforming, Loading,
\* Done and, within one invocation of run(), never go backward: every list-page fetch happens in Extracting, every
\* detail fetch in Detailing after the final page has returned, the transformation
\* after the last detail fetch, and every batch submission in Loading after the
\* transformation of all the details.
C1_PhasesInOrder == [][runs' = runs => C1_Step]_vars

C1_Witness ==
    /\ pc = "Done" /\ result = "success"
    /\ Len(pageLog) >= 2 /\ Len(detailLog) >= 2 /\ Len(submitLog) >= 2

\* the run of C2: every call succeeded and every record transformed
AllSucceeded ==
    /\ \A k \in 1..Len(pageLog) : ~PageFailed(pageLog[k])
    /\ \A k \in 1..Len(detailLog) : detailLog[k].ok
    /\ \A k \in 1..Len(animal_details) : Parseable(animal_details[k].born_at.text)
    /\ \A k \in 1..Len(submitLog) : submitLog[k].ok

\* ceil(n / b) for b >= 1
CeilDiv(n, b) == (n + b - 1) \div b

\* C2: when every page fetch, detail fetch, transformation and batch submission
\* succeeds for n >= 1 records and 1 <= batch size <= 100, run() (not the dry run,
\* which is another function) returns success
\* with found = detailed = transformed = submitted = n, ceil(n/b) batches (one call
\* carrying all n records when n <= b) and every failure counter 0.
C2_AllSucceedStats ==
    LET n == Len(ConcatItems(pageLog))
    IN  (/\ ~dry_run /\ pc = "Done" /\ AllSucceeded
         /\ n >= 1 /\ batch_size >= 1 /\ batch_size <= SUBMIT_LIMIT)
        => /\ result = "success"
           /\ stats.total_animals_found = n
           /\ stats.total_animals_detailed = n
           /\ stats.total_animals_transformed = n
           /\ stats.total_animals_submitted = n
           /\ stats.total_batches_submitted = CeilDiv(n, batch_size)
           /\ Len(submitLog) = CeilDiv(n, batch_size)
           /\ (n <= batch_size => Len(submitLog[1].batch) = n)
           /\ stats.failed_details = 0
           /\ stats.failed_transformations = 0
           /\ stats.failed_submissions = 0

C2_Witness ==
    /\ ~dry_run /\ pc = "Done" /\ AllSucceeded /\ result = "success"
    /\ batch_size >= 2 /\ batch_size <= SUBMIT_LIMIT
    /\ Len(ConcatItems(pageLog)) > batch_size
    /\ Len(ConcatItems(pageLog)) % batch_size # 0
    /\ stats.total_batches_submitted = CeilDiv(Len(ConcatItems(pageLog)), batch_size)

\* every logged page succeeded, was well formed and reported the same total_pages
UniformPages ==
    /\ pageLog # <<>>
    /\ \A k \in 1..Len(pageLog) :
          ~PageFailed(pageLog[k]) /\ pageLog[k].total_pages = pageLog[1].total_pages

\* C3: when every page reports total_pages = N and every page fetch succeeds,
\* extraction requests exactly the pages 1, 2, ..., N in that order and the
\* summaries are the concatenation of the pages' items in page order, so that the
\* number found is the sum of the pages' item counts.
C3_ExtractionPages ==
    UniformPages =>
        /\ \A k \in 1..Len(pageLog) : pageLog[k].page = k
        /\ Len(pageLog) <= pageLog[1].total_pages
        /\ all_animals = ConcatItems(pageLog)
        /\ (pc # "Extracting" =>
               /\ Len(pageLog) = pageLog[1].total_pages
               /\ animal_summaries = ConcatItems(pageLog)
               /\ stats.total_animals_found = Len(ConcatItems(pageLog)))

C3_Witness ==
    /\ pc = "Detailing" /\ UniformPages
    /\ Len(pageLog) = 3
    /\ pageLog[1].items # <<>> /\ pageLog[3].items # <<>>
    /\ animal_summaries = ConcatItems(pageLog)

\* C4: if a list-page fetch fails after the transport's retries, or returns a
\* malformed page (page < 1 or total_pages < 1), the run is Done with failure and
\* no detail fetch and no batch submission has been issued.
C4_PageFailureAborts ==
    (\E k \in 1..Len(pageLog) : PageFailed(pageLog[k]))
        => /\ pc = "Done" /\ result = "failure"
           /\ detailLog = <<>> /\ submitLog = <<>>

C4_Witness ==
    /\ pc = "Done" /\ result = "failure"
    /\ Len(pageLog) = 2
    /\ pageLog[1].items # <<>>
    /\ ~pageLog[2].ok

\* Detailing is over
Detailed == pc \in {"Transforming", "Loading"} \/ (pc = "Done" /\ detailLog # <<>>)

\* C5: Detailing makes exactly one detail fetch per extracted summary, in
\* extraction order; a failed fetch skips that id only and the later summaries are
\* still fetched.  Afterwards the details are in extraction order,
\* total_animals_detailed + failed_details = total_animals_found, and a run that
\* obtained some detail goes on to Transforming and, in run(), to Loading.
C5_DetailPerSummary ==
    /\ Len(detailLog) <= Len(animal_summaries)
    /\ \A k \in 1..Len(detailLog) : detailLog[k].id = animal_summaries[k]
    /\ [k \in 1..Len(animal_details) |-> animal_details[k].id] = OkIds(detailLog)
    /\ (Detailed =>
           /\ Len(detailLog) = Len(animal_summaries)
           /\ stats.total_animals_detailed = CountOk(detailLog)
           /\ stats.failed_details = Len(detailLog) - CountOk(detailLog)
           /\ stats.total_animals_detailed + stats.failed_details
                  = stats.total_animals_found)
    /\ ((pc = "Done" /\ animal_details # <<>>) =>
           /\ stats.total_animals_transformed + stats.failed_transformations
                  = Len(animal_details)
           /\ ((~dry_run /\ transformed_animals # <<>> /\ batch_size >= 1)
                  => submitLog # <<>>))

C5_Witness ==
    /\ pc = "Done" /\ submitLog # <<>>
    /\ Len(detailLog) >= 3
    /\ ~detailLog[1].ok
    /\ stats.failed_details = 1
    /\ stats.total_animals_detailed = Len(detailLog) - 1

\* the records of the batches that were submitted successfully
RECURSIVE SubmittedRecords(_)
SubmittedRecords(log) ==
    IF log = <<>> THEN 0
    ELSE (IF log[1].ok THEN Len(log[1].batch) ELSE 0) + SubmittedRecords(Tail(log))

C8_BatchesCapped ==
    batch_size >= 1 =>
        \A k \in 1..Len(submitLog) : Len(submitLog[k].batch) <= SUBMIT_LIMIT

\* C9: submit_animals_batch given more than 100 records raises a validation
\* failure without a network call; given 100 or fewer records it makes the POST.
C9_SubmitLimit ==
    \A k \in 1..Len(submitLog) :
        /\ Len(submitLog[k].batch) > 100 => (~submitLog[k].posted /\ ~submitLog[k].ok)
        /\ Len(submitLog[k].batch) <= 100 => submitLog[k].posted

C9_Witness ==
    /\ Len(submitLog) >= 2
    /\ Len(submitLog[1].batch) = 101 /\ ~submitLog[1].posted
    /\ Len(submitLog[2].batch) <= 100 /\ submitLog[2].posted

\* an HTTP error status outside the retry set: any 4xx, or a 5xx other than
\* 500/502/503/504
NonRetryable(r) == r.kind = "http" /\ r.code >= 400 /\ r.code \notin {500, 502, 503, 504}

\* C10: a request that receives a non-retryable HTTP error status fails
\* immediately: the attempt that received it is the last of the logical call, so a
\* call whose first response is such a status makes exactly one attempt.
C10_NonRetryableOnce ==
    \A k \in 1..Len(attempts) :
        NonRetryable(attempts[k]) => (k = Len(attempts) /\ call_state = "raised")

\* a failure the transport retries: connection failure, timeout, HTTP 500/502/503/504
RetryableFailure(r) ==
    r.kind \in {"timeout", "connection"} \/ (r.kind = "http" /\ r.code \in {500, 502, 503, 504})

\* an attempt that succeeded: an HTTP status below 400
AttemptSucceeded(r) == r.kind = "http" /\ r.code < 400

\* C11: an attempt that fails with a connection failure, a timeout or HTTP
\* 500/502/503/504 is retried while fewer than the maximum number of attempts (3)
\* were made; the call returns as soon as one attempt succeeds, and it raises only
\* after the maximum number of attempts, all failed; the attempts of one logical
\* call never exceed that maximum.
C11_BoundedRetry ==
    /\ Len(attempts) <= MAX_RETRIES
    /\ \A k \in 1..Len(attempts) :
          /\ (k < Len(attempts) => ~AttemptSucceeded(attempts[k]))
          /\ ((RetryableFailure(attempts[k]) /\ k < MAX_RETRIES) =>
                 (k < Len(attempts) \/ call_state = "calling"))
    /\ (call_state = "returned" <=>
           (attempts # <<>> /\ AttemptSucceeded(attempts[Len(attempts)])))
    /\ (call_state = "raised" =>
           /\ Len(attempts) = MAX_RETRIES
           /\ \A k \in 1..Len(attempts) : ~AttemptSucceeded(attempts[k]))

C11_Witness ==
    /\ call_state = "returned"
    /\ Len(attempts) = 3
    /\ attempts[1].kind = "timeout"
    /\ attempts[2].kind = "http" /\ attempts[2].code = 503
    /\ AttemptSucceeded(attempts[3])

\* the images of the records whose transformation succeeds, in input order
RECURSIVE Images(_)
Images(animals) ==
    IF animals = <<>> THEN <<>>
    ELSE (IF Parseable(Head(animals).born_at.text)
          THEN <<transform_animal(Head(animals)).value>> ELSE <<>>)
         \o Images(Tail(animals))

C12_Step ==
    pc = "Transforming" =>
        /\ pc' \in {"Loading", "Done"}
        /\ transformed_animals' = Images(animal_details)
        /\ \A k \in 1..Len(transformed_animals') :
               /\ transformed_animals'[k].born_at = SomeText("2020-01-01T00:00:00+00:00")
               /\ transformed_animals'[k].friends = << <<"a">>, <<"b">> >>
        /\ stats'.total_animals_transformed = Len(transformed_animals')
        /\ stats'.failed_transformations
               = Len(animal_details) - Len(transformed_animals')
        /\ ((~dry_run /\ transformed_animals' # <<>>) =>
               (pc' = "Loading" /\ result' = result))

\* C12: transforming a list never fails as a whole: the step out of Transforming
\* always completes, its output is exactly the transformed images of the records
\* whose transformation succeeds, in input order, and failed_transformations is
\* the input count minus the output count.
C12_BatchNeverFails == [][C12_Step]_vars

C12_Witness ==
    /\ pc = "Loading"
    /\ Len(animal_details) >= 3
    /\ ~Parseable(animal_details[1].born_at.text)
    /\ Parseable(animal_details[2].born_at.text)
    /\ Len(transformed_animals) = Len(animal_details) - 1
    /\ stats.failed_transformations = 1

\* C13: when extraction succeeds and finds no summary, the run is Done with
\* success, and neither a detail fetch nor a batch submission was issued.
C13_EmptyExtractionSucceeds ==
    (ExtractionComplete /\ ConcatItems(pageLog) = <<>>) =>
        /\ pc = "Done"
        /\ result = "success"
        /\ detailLog = <<>>
        /\ submitLog = <<>>

C13_Witness ==
    /\ ~dry_run /\ pc = "Done" /\ result = "success"
    /\ Len(pageLog) >= 2
    /\ ExtractionComplete
    /\ ConcatItems(pageLog) = <<>>
    /\ detailLog = <<>> /\ submitLog = <<>>

\* C14: in run(), zero details after a non-empty extraction, or zero transformed
\* records after a non-empty detail set, ends the run in Done with failure; no
\* later phase starts (no transformation after zero details) and no batch
\* submission is issued.
C14_EmptyPhaseFails ==
    /\ (/\ ~dry_run /\ animal_summaries # <<>>
        /\ Len(detailLog) = Len(animal_summaries) /\ animal_details = <<>>)
       => /\ pc = "Done" /\ result = "failure"
          /\ transformed_animals = <<>>
          /\ stats.total_animals_transformed = 0 /\ stats.failed_transformations = 0
          /\ submitLog = <<>>
    /\ (/\ ~dry_run /\ pc \in {"Loading", "Done"}
        /\ animal_details # <<>> /\ transformed_animals = <<>>)
       => /\ pc = "Done" /\ result = "failure"
          /\ stats.failed_transformations = Len(animal_details)
          /\ submitLog = <<>>

C14_Witness ==
    /\ ~dry_run /\ pc = "Done" /\ result = "failure"
    /\ Len(animal_details) >= 2
    /\ transformed_animals = <<>>
    /\ stats.failed_transformations = Len(animal_details)
    /\ submitLog = <<>>

\* C15: a dry run goes through Extracting, Detailing and Transforming and never
\* through Loading: no batch submission is issued and total_animals_submitted
\* stays 0.
C15_DryRunSkipsLoad ==
    dry_run =>
        /\ pc # "Loading"
        /\ submitLog = <<>>
        /\ stats.total_animals_submitted = 0
        /\ stats.total_batches_submitted = 0
        /\ ((pc = "Done" /\ ExtractionComplete /\ animal_summaries # <<>>) =>
               /\ Len(detailLog) = Len(animal_summaries)
               /\ transformed_animals = Images(animal_details)
               /\ stats.total_animals_transformed = Len(transformed_animals))

C15_Witness ==
    /\ dry_run /\ pc = "Done"
    /\ Len(detailLog) >= 2
    /\ Len(transformed_animals) >= 2
    /\ batch_size >= 1
    /\ submitLog = <<>>
    /\ stats.total_animals_submitted = 0

\* C16: a dry run over a non-empty record set in which extraction, every detail
\* fetch and every transformation succeed returns success.
C16_DryRunSucceeds ==
    (/\ dry_run /\ pc = "Done" /\ AllSucceeded
     /\ Len(ConcatItems(pageLog)) >= 1)
    => result = "success"

\* C17: every failure of transform_animal is a TransformationError that carries
\* the id of the record being transformed, a propagated field-level error (an
\* unparseable born_at) included.
C17_ErrorCarriesId ==
    (record_step = "transformed" /\ ~record_out.ok) =>
        /\ record_out.error.has_id
        /\ record_out.error.animal_id = record.id

\* an entry that is empty or made of whitespace only
Blank(entry) == \A i \in 1..Len(entry) : entry[i] = " "

\* C18: every TransformedAnimal that transform_animal produces has a friends list
\* without blank entries, whether the friends field was a delimited string or a
\* list of strings (one with whitespace-only entries included).
C18_NoBlankFriends ==
    (record_step = "transformed" /\ record_out.ok) =>
        \A k \in 1..Len(record_out.value.friends) :
            ~Blank(record_out.value.friends[k])

\* the hour in UTC of the instant a datetime denotes, a naive one taken as UTC
UtcHour(dt) == IF dt.aware THEN dt.hour - dt.offset ELSE dt.hour

\* the ISO 8601 text in UTC of that instant
UtcText(dt) == "2020-01-01T" \o TwoDigits(UtcHour(dt)) \o ":00:00+00:00"

\* C19: every TransformedAnimal that transform_animal produces with a born_at has
\* it in UTC: a datetime without timezone is taken as UTC, one with another
\* timezone is converted to the same instant in UTC, and a parsed string is
\* normalized in the same way.
C19_BornAtUtc ==
    (/\ record_step = "transformed" /\ record_out.ok
     /\ record_out.value.born_at.present)
    => /\ record.born_at.kind = "datetime" =>
              record_out.value.born_at.text = UtcText(record.born_at.dt)
       /\ record.born_at.kind = "str" =>
              record_out.value.born_at.text = UtcText(ParseDate(record.born_at.text))

\* the number of commas among the first i characters of s
CommasBefore(s, i) == Cardinality({j \in 1..i : s[j] = ","})

\* the positions of the k-th comma-separated piece of s that are not whitespace
Inked(s, k) ==
    {i \in 1..Len(s) : s[i] \notin {",", " "} /\ CommasBefore(s, i) = k - 1}

\* the pieces of s that are not blank, by their number, in increasing order
RECURSIVE InkedPieces(_, _)
InkedPieces(s, k) ==
    IF k > CommasBefore(s, Len(s)) + 1 THEN <<>>
    ELSE (IF Inked(s, k) # {} THEN <<k>> ELSE <<>>) \o InkedPieces(s, k + 1)

\* the k-th piece of s without the whitespace around it
Trimmed(s, k) ==
    LET first == CHOOSE i \in Inked(s, k) : \A j \in Inked(s, k) : i <= j
        last  == CHOOSE i \in Inked(s, k) : \A j \in Inked(s, k) : i >= j
    IN  SubSeq(s, first, last)

\* C20: transform_friends on a string returns its comma-separated pieces, each
\* without the whitespace around it, the empty ones dropped, in their order
\* ("a, b,,c" gives [a, b, c]); on an empty, blank or absent input it returns
\* the empty list.
C20_NormalizeFriends ==
    friends_call.called =>
        LET s      == raw_record.friends.str
            out    == friends_call.value
            pieces == InkedPieces(s, 1)
        IN  /\ Len(out) = Len(pieces)
            /\ \A k \in 1..Len(out) :
                   /\ out[k] = Trimmed(s, pieces[k])
                   /\ out[k] # <<>>
                   /\ Head(out[k]) # " " /\ out[k][Len(out[k])] # " "
                   /\ \A i \in 1..Len(out[k]) : out[k][i] # ","
            /\ (s = ExampleFriends => out = << <<"a">>, <<"b">>, <<"c">> >>)
            /\ ((raw_record.friends.kind = "none" \/ Blank(s)) => out = <<>>)

C20_Witness ==
    /\ friends_call.called
    /\ raw_record.friends = StrFriends(ExampleFriends)
    /\ friends_call.value = << <<"a">>, <<"b">>, <<"c">> >>

\* the records of the batches whose submission failed
RECURSIVE FailedRecords(_)
FailedRecords(log) ==
    IF log = <<>> THEN 0
    ELSE (IF log[1].ok THEN 0 ELSE Len(log[1].batch)) + FailedRecords(Tail(log))

\* C21: whenever run() is Done, the statistics account for every dropped record
\* and batch: found = detailed + failed_details, detailed = transformed +
\* failed_transformations, batches submitted + failed_submissions = batches
\* attempted, and transformed - submitted = the records of the failed batches.
C21_NothingSwallowed ==
    (~dry_run /\ pc = "Done") =>
        /\ stats.total_animals_found
               = stats.total_animals_detailed + stats.failed_details
        /\ stats.total_animals_detailed
               = stats.total_animals_transformed + stats.failed_transformations
        /\ stats.total_batches_submitted + stats.failed_submissions = Len(submitLog)
        /\ stats.total_animals_transformed - stats.total_animals_submitted
               = FailedRecords(submitLog)

\* C22: whenever run() has returned, on any exit path, start_time and end_time
\* are both set, so that the duration is defined.
C22_StatsFinalized ==
    (~dry_run /\ pc = "Done") =>
        /\ stats.start_time = "set"
        /\ stats.end_time = "set"
        /\ DurationDefined(stats)

\* C26: for any batch size, a run() with at least one transformed record that
\* returns success has submitted every transformed record.
C26_SuccessSubmitsAll ==
    (/\ ~dry_run /\ pc = "Done" /\ result = "success"
     /\ transformed_animals # <<>>)
    => /\ stats.total_animals_submitted = stats.total_animals_transformed
       /\ stats.total_animals_transformed > 0
       /\ ConcatBatches(submitLog) = transformed_animals

\* no request is logged by a step taken without an open session
C23_Step ==
    session # "open" =>
        /\ Len(pageLog') <= Len(pageLog)
        /\ Len(detailLog') <= Len(detailLog)
        /\ Len(submitLog') <= Len(submitLog)

\* C23: whenever the run has returned, by its normal end, by an early return or
\* after an exception, the client's session is closed, and no request is issued
\* without an open session.
C23_ClientReleased ==
    /\ [](pc = "Done" => session = "closed")
    /\ [][C23_Step]_vars

C23_Witness ==
    /\ ~dry_run /\ pc = "Done" /\ result = "failure"
    /\ batch_size = 0
    /\ transformed_animals # <<>>
    /\ submitLog = <<>>
    /\ session = "closed"

\* C24: the max_retries given to the processor bounds the attempts of each logical
\* call of the run: no call makes more attempts, and a call whose attempts all
\* fail with retryable failures raises after exactly that many.
C24_ConfiguredRetries ==
    /\ Len(attempts) <= max_retries
    /\ (/\ call_state = "raised"
        /\ \A k \in 1..Len(attempts) : RetryableFailure(attempts[k]))
       => Len(attempts) = max_retries

\* the pages requested so far are START_PAGE, START_PAGE + 1, ... and every page
\* before the last one was served with a number below the total_pages it reported
PagesIncrease ==
    \A k \in 1..Len(pageLog) :
        /\ pageLog[k].page = START_PAGE + k - 1
        /\ (k < Len(pageLog) =>
               (~PageFailed(pageLog[k]) /\ pageLog[k].page < pageLog[k].total_pages))

\* extraction is over once a page is served whose number is >= its total_pages
StopsAtLastPage ==
    (pageLog # <<>> /\ ~PageFailed(pageLog[Len(pageLog)])
     /\ pageLog[Len(pageLog)].page >= pageLog[Len(pageLog)].total_pages)
    => pc # "Extracting"

\* C25: every run terminates: with every call returning and total_pages bounded,
\* the run eventually is Done; extraction requests strictly increasing page
\* numbers and stops at the first page whose number is >= the total_pages that
\* page reports.
C25_Terminates ==
    /\ <>(pc = "Done")
    /\ [](PagesIncrease /\ StopsAtLastPage)

C25_Witness ==
    /\ pc = "Done" /\ result = "success"
    /\ Len(pageLog) = 3
    /\ pageLog[1].total_pages = 3
    /\ pageLog[3].page = 3
    /\ Len(detailLog) >= 2
    /\ submitLog # <<>>

\* what a processor made for this invocation alone would report when it returns:
\* the counters of the phases that ran, 0 for the others
OwnStats ==
    [total_animals_found |->
         IF ExtractionComplete THEN Len(ConcatItems(pageLog)) ELSE 0,
     total_animals_detailed |-> CountOk(detailLog),
     failed_details |-> Len(detailLog) - CountOk(detailLog),
     total_animals_transformed |-> Len(transformed_animals),
     failed_transformations |->
         IF pc = "Done" /\ animal_details # <<>>
         THEN Len(animal_details) - Len(transformed_animals) ELSE 0,
     total_animals_submitted |-> SubmittedRecords(submitLog),
     total_batches_submitted |-> CountOk(submitLog),
     failed_submissions |-> Len(submitLog) - CountOk(submitLog)]

\* C27: after run() is invoked again on the same processor and returns, every
\* counter of the statistics reflects that invocation only.
C27_StatsPerRun ==
    (runs >= 2 /\ pc = "Done") =>
        /\ stats.total_animals_found = OwnStats.total_animals_found
        /\ stats.total_animals_detailed = OwnStats.total_animals_detailed
        /\ stats.failed_details = OwnStats.failed_details
        /\ stats.total_animals_transformed = OwnStats.total_animals_transformed
        /\ stats.failed_transformations = OwnStats.failed_transformations
        /\ stats.total_animals_submitted = OwnStats.total_animals_submitted
        /\ stats.total_batches_submitted = OwnStats.total_batches_submitted
        /\ stats.failed_submissions = OwnStats.failed_submissions

====
